---------------------------- MODULE Spec2Model ----------------------------
(***************************************************************************)
(* Model of libzdb.c: main -> dump_cachefile -> dump_path -> open_objset   *)
(* -> dump_path_impl -> dump_object -> dump_znode -> dump_indirect /       *)
(* visit_indirect -> the reconciliation loop of dump_object ->             *)
(* close_objset -> exit.                                                   *)
(*                                                                         *)
(* One run of the program is one behaviour.  What the program reads from   *)
(* its collaborators (the outcome of an open, of a lookup, the contents of *)
(* a block pointer, the recorded file size) is drawn with \E at the step   *)
(* that reads it.  Byte quantities are uint64_t in the source; the model   *)
(* keeps the modular arithmetic but at WordBits bits.                      *)
(***************************************************************************)
EXTENDS Integers, Sequences, FiniteSets, TLC

VARIABLES
    pc,              \* position of the single thread
    argc,            \* main's argc
    exitCode,        \* process exit status (-1 while running)
    vdevs,           \* zpool_vdevs_t * returned by dump_cachefile (<< >> before)
    os,              \* objset_t *os of dump_path: "null" | "owned" | "disowned"
    sa_attr_table,   \* the static sa_attr_table: "null" | "set"
    openRet,         \* return value of open_objset
    implRet,         \* return value of dump_path_impl
    dumpPathRet,     \* return value of dump_path
    dnp,             \* dnode_phys_t of the object being dumped
    fsize,           \* const uint64_t fsize of dump_object
    stack,           \* active visit_indirect frames that are inside their loop
    j,               \* loop index of dump_indirect
    list,            \* c2list_t block_list of dump_object
    node,            \* position of the reconciliation loop in list
    remaining_fsize, \* uint64_t remaining_fsize of dump_object
    out,             \* the "BP:" lines printed on stdout, in order
    reqs,            \* the request lines printed (or raidz map calls), in order
    warnings,        \* number of warnings printed on stderr by dump_object
    fail,            \* first failure the run met ("none" if none)
    nfetch,          \* number of arc_read calls made
    fetchFailed,     \* an arc_read has failed
    disowns,         \* number of dmu_objset_disown calls made
    wasOwned,        \* dmu_objset_own has succeeded
    badUse           \* a null or disowned handle / null table was dereferenced

vars == << pc, argc, exitCode, vdevs, os, sa_attr_table, openRet, implRet,
           dumpPathRet, dnp, fsize, stack, j, list, node, remaining_fsize,
           out, reqs, warnings, fail, nfetch, fetchFailed,
           disowns, wasOwned, badUse >>

---------------------------------------------------------------------------
(* Bounds of the model *)

\* uint64_t is modelled at this width
WordBits == 24
\* dn_nlevels ranges over 1 .. MaxLevels
MaxLevels == 2
\* dn_nblkptr ranges over 1 .. MaxBlkptr
MaxBlkptr == 2
\* level-0 blocks with block id above MaxBlkid were never written
MaxBlkid == 2
\* dn_indblkshift of the object (the source's range starts higher)
IndBlkShift == 8
\* dn_datablkszsec of the object: data block size in 512-byte sectors
DataBlkSzSec == 1

(* Program constants *)

SPA_BLKPTRSHIFT == 7
SPA_MINBLOCKSHIFT == 9
VDEV_LABEL_START_SIZE == 4194304
\* errno values returned by the collaborators
ENOENT == 2
EIO == 5
EINVAL == 22
\* exit status of a process killed by SIGSEGV
SIGSEGV_STATUS == 139

---------------------------------------------------------------------------
(* uint64_t arithmetic *)

UINT_MOD == 2 ^ WordBits

MIN(a, b) == IF a < b THEN a ELSE b

USub(a, b) == (a - b + UINT_MOD) % UINT_MOD

UAdd(a, b) == (a + b) % UINT_MOD

UMul(a, b) == (a * b) % UINT_MOD

UShl(a, n) == (a * (2 ^ n)) % UINT_MOD

---------------------------------------------------------------------------
(* The pool topology: zpool_vdev_t / zpool_vdevs_t, as dump_cachefile      *)
(* copies it.  A device name is <<index of the vdev, index of the member>>.*)

zpool_vdev(shape, v) ==
    [ type |-> shape.type, count |-> shape.count, nparity |-> shape.nparity,
      ashift |-> SPA_MINBLOCKSHIFT,
      names |-> [ m \in 1 .. shape.count |-> << v, m - 1 >> ] ]

\* the top-level vdev shapes the cache file may describe
VdevShapes ==
    << [ type |-> "STRIPE", count |-> 1, nparity |-> 0 ],
       [ type |-> "STRIPE", count |-> 2, nparity |-> 0 ],
       [ type |-> "MIRROR", count |-> 2, nparity |-> 0 ],
       [ type |-> "RAIDZ", count |-> 3, nparity |-> 1 ],
       [ type |-> "UNKNOWN", count |-> 1, nparity |-> 0 ] >>

\* the pools the cache file may describe: two top-level vdevs, every shape
\* standing once as vdev 0 and once as vdev 1
Topologies ==
    { << zpool_vdev(VdevShapes[k], 0),
         zpool_vdev(VdevShapes[(k % Len(VdevShapes)) + 1], 1) >> :
      k \in 1 .. Len(VdevShapes) }

---------------------------------------------------------------------------
(* The object: dnode_phys_t and the block pointers read during the walk *)

BlockSize == UShl(DataBlkSzSec, SPA_MINBLOCKSHIFT)

Dnodes ==
    { [ nlevels |-> l, nblkptr |-> n, indblkshift |-> IndBlkShift,
        datablkszsec |-> DataBlkSzSec ] : l \in 1 .. MaxLevels, n \in 1 .. MaxBlkptr }

NoDnode == [ nlevels |-> 0, nblkptr |-> 0, indblkshift |-> 0, datablkszsec |-> 0 ]

\* the file sizes the attribute table may record: every half block up to
\* one past the last block that can have been written
FSizes == { k * (BlockSize \div 2) : k \in 0 .. (2 * (MaxBlkid + 1) + 1) }

\* where the allocator put level-0 block blkid on vdev v (DVA offset)
DvaOffset(v, blkid) == (v + 1) * 65536 + blkid * BlockSize

\* first level-0 block id below the block pointer (level, blkid)
FirstLeaf(d, level, blkid) ==
    blkid * (2 ^ (level * (d.indblkshift - SPA_BLKPTRSHIFT)))

\* a never-written block pointer: blk_birth = 0
UnwrittenBp(level) ==
    [ birth |-> 0, hole |-> TRUE, level |-> level, lsize |-> 0, psize |-> 0,
      vdev |-> 0, offset |-> 0, asize |-> 0, readable |-> FALSE ]

\* a hole with a birth time: no DVA, no physical size, logical size kept
HoleBp(level, lsize) ==
    [ birth |-> 1, hole |-> TRUE, level |-> level, lsize |-> lsize, psize |-> 0,
      vdev |-> 0, offset |-> 0, asize |-> 0, readable |-> FALSE ]

\* an allocated, uncompressed block
DataBp(level, lsize, v, off, readable) ==
    [ birth |-> 1, hole |-> FALSE, level |-> level, lsize |-> lsize,
      psize |-> lsize, vdev |-> v, offset |-> off, asize |-> lsize,
      readable |-> readable ]

\* the block pointers that may stand at bookmark (level, blkid) of object d
\* in a pool with nv top-level vdevs
BlkptrsAt(d, level, blkid, nv) ==
    IF FirstLeaf(d, level, blkid) > MaxBlkid
    THEN { UnwrittenBp(level) }
    ELSE IF level > 0
    THEN { UnwrittenBp(level), HoleBp(level, 2 ^ d.indblkshift),
           DataBp(level, 2 ^ d.indblkshift, 0, 0, TRUE),
           DataBp(level, 2 ^ d.indblkshift, 0, 0, FALSE) }
    ELSE { UnwrittenBp(0), HoleBp(0, BlockSize) }
         \cup { DataBp(0, BlockSize, v, DvaOffset(v, blkid), TRUE) : v \in 0 .. nv - 1 }

---------------------------------------------------------------------------
(* The walk: blkid2offset, snprintf_blkptr_compact, print_indirect *)

\* blkid2offset with dnp != NULL
blkid2offset(d, zb) ==
    UShl(UMul(UShl(zb.blkid, zb.level * (d.indblkshift - SPA_BLKPTRSHIFT)),
              d.datablkszsec),
         SPA_MINBLOCKSHIFT)

\* the info_t that snprintf_blkptr_compact and print_indirect fill for a
\* level-0 block pointer
InfoOf(d, bp, zb) ==
    [ file_offset |-> blkid2offset(d, zb),
      file_data |-> bp.lsize,
      physical_file_data |-> IF bp.hole THEN 0 ELSE bp.psize,
      vdev |-> bp.vdev, offset |-> bp.offset, asize |-> bp.asize ]

\* print_indirect: a level-0 pointer is pushed on the list, others are not
print_indirect(d, bp, zb, l) ==
    IF bp.level = 0 THEN Append(l, InfoOf(d, bp, zb)) ELSE l

\* entries per indirect block: BP_GET_LSIZE(bp) >> SPA_BLKPTRSHIFT
Epb(bp) == bp.lsize \div (2 ^ SPA_BLKPTRSHIFT)

\* variant of ChildBlkid: the parent's block id is not scaled by epb
ChildBlkid_Unscaled(blkid, epb, i) == blkid + i

\* block id of child i: SET_BOOKMARK(..., zb->zb_blkid * epb + i)
ChildBlkid(blkid, epb, i) == blkid * epb + i

\* the bookmark visit_indirect is called with next: root pointer j of
\* dump_indirect, or child i of the innermost frame
CurrentZb ==
    IF stack = << >>
    THEN [ level |-> dnp.nlevels - 1, blkid |-> j ]
    ELSE LET top == stack[Len(stack)]
         IN  [ level |-> top.level - 1,
               blkid |-> ChildBlkid(top.blkid, top.epb, top.i) ]

\* a call that returned 0: the caller's loop moves to its next index, and
\* a loop that has run out returns 0 to its own caller
RECURSIVE ReturnOk(_, _)
ReturnOk(st, jj) ==
    IF st = << >>
    THEN [ stack |-> st, j |-> jj + 1 ]
    ELSE LET n == Len(st)
             top == st[n]
         IN  IF top.i + 1 < top.epb
             THEN [ stack |-> [ st EXCEPT ![n].i = top.i + 1 ], j |-> jj ]
             ELSE ReturnOk(SubSeq(st, 1, n - 1), jj)

\* a call that returned an error: every enclosing loop breaks and returns
\* it; dump_indirect drops it and goes on with its next root pointer
ReturnErr(st, jj) == [ stack |-> << >>, j |-> jj + 1 ]

---------------------------------------------------------------------------
(* The reconciliation loop of dump_object *)

\* the end-of-the-list guard: only file_offset is set
GuardInfo(fs) ==
    [ file_offset |-> fs, file_data |-> 0, physical_file_data |-> 0,
      vdev |-> 0, offset |-> 0, asize |-> 0 ]

\* variant of ActualSize: remaining_fsize is decremented before it is used
ActualSize_AfterDecrement(info, next, remaining) ==
    MIN(MIN(USub(next.file_offset, info.file_offset), info.physical_file_data),
        USub(remaining, MIN(remaining, info.file_data)))

\* variant of ActualSize: physical_file_data is left out of the minimum
ActualSize_NoPhysical(info, next, remaining) ==
    MIN(USub(next.file_offset, info.file_offset), remaining)

\* actual_size = MIN(MIN(next->file_offset - info->file_offset,
\*                       info->physical_file_data), remaining_fsize)
ActualSize(info, next, remaining) ==
    MIN(MIN(USub(next.file_offset, info.file_offset), info.physical_file_data),
        remaining)

\* variant of RemainingAfter: remaining_fsize is never decremented
RemainingAfter_Kept(remaining, info) == remaining

\* remaining_fsize -= MIN(remaining_fsize, info->file_data)
RemainingAfter(remaining, info) ==
    USub(remaining, MIN(remaining, info.file_data))

\* the "BP:" line printed for one list node
BpLine(info, actual_size) ==
    [ file_offset |-> info.file_offset, file_data |-> info.file_data,
      physical_file_data |-> info.physical_file_data, vdev |-> info.vdev,
      io_offset |-> info.offset, effective_record_size |-> actual_size ]

\* if (actual_size != 0): only then is the vdev type looked at
Resolves(actual_size) == actual_size # 0

\* variant of StripeMirrorLine: the label area is not added to the offset
StripeMirrorLine_NoLabel(n, info, vdev, actual_size) ==
    [ node |-> n, kind |-> "dev", vdevidx |-> info.vdev, dev |-> vdev.names[1],
      offset |-> info.offset, size |-> actual_size ]

\* the "vdevidx= dev= offset= size=" line of the STRIPE / MIRROR case
StripeMirrorLine(n, info, vdev, actual_size) ==
    [ node |-> n, kind |-> "dev", vdevidx |-> info.vdev, dev |-> vdev.names[1],
      offset |-> UAdd(info.offset, VDEV_LABEL_START_SIZE), size |-> actual_size ]

\* the call vdev_raidz_map_alloc(&zio, ashift, count, nparity, names,
\* actual_size) of the RAIDZ case, with zio.io_offset and zio.io_size
RaidzCall(n, info, vdev, actual_size) ==
    [ node |-> n, kind |-> "raidz_map", vdevidx |-> info.vdev, dev |-> << >>,
      offset |-> info.offset, size |-> actual_size ]

\* what the switch on vdev->type appends to the request lines
ResolveLines(n, info, vdev, actual_size) ==
    IF ~Resolves(actual_size) THEN << >>
    ELSE IF vdev.type \in { "STRIPE", "MIRROR" }
         THEN << StripeMirrorLine(n, info, vdev, actual_size) >>
    ELSE IF vdev.type = "RAIDZ"
         THEN << RaidzCall(n, info, vdev, actual_size) >>
    ELSE << >>

\* the warning of the STRIPE case
ResolveWarns(vdev, actual_size) ==
    IF Resolves(actual_size) /\ vdev.type = "STRIPE" /\ vdev.count # 1
    THEN 1 ELSE 0

---------------------------------------------------------------------------
(* Initial state: the process has just entered main *)

Init ==
    /\ pc = "main"
    /\ argc \in 1 .. 3
    /\ exitCode = -1
    /\ vdevs = << >>
    /\ os = "null"
    /\ sa_attr_table = "null"
    /\ openRet = 0
    /\ implRet = 0
    /\ dumpPathRet = 0
    /\ dnp = NoDnode
    /\ fsize = 0
    /\ stack = << >>
    /\ j = 0
    /\ list = << >>
    /\ node = 0
    /\ remaining_fsize = 0
    /\ out = << >>
    /\ reqs = << >>
    /\ warnings = 0
    /\ fail = "none"
    /\ nfetch = 0
    /\ fetchFailed = FALSE
    /\ disowns = 0
    /\ wasOwned = FALSE
    /\ badUse = FALSE

\* the first failure of a run is the one recorded
Failed(kind) == IF fail = "none" THEN kind ELSE fail

walkVars == << dnp, fsize, stack, j, list, node, remaining_fsize, out, reqs,
               warnings, nfetch, fetchFailed >>

handleVars == << os, sa_attr_table, openRet, disowns, wasOwned, badUse >>

\* main, up to the call of dump_cachefile
Main ==
    /\ pc = "main"
    /\ IF argc < 3
       THEN /\ exitCode' = 1
            /\ fail' = Failed("usage")
            /\ pc' = "exit"
       ELSE /\ pc' = "dump_cachefile"
            /\ UNCHANGED << exitCode, fail >>
    /\ UNCHANGED << argc, vdevs, implRet, dumpPathRet >>
    /\ UNCHANGED handleVars
    /\ UNCHANGED walkVars

\* dump_cachefile: open64, fstat64, malloc, read or nvlist_unpack fails and
\* the process exits with 1, or the topology is built and returned
DumpCachefile ==
    /\ pc = "dump_cachefile"
    /\ \/ /\ \E step \in { "open64", "fstat64", "malloc", "read", "nvlist_unpack" } :
                fail' = Failed("config")
          /\ exitCode' = 1
          /\ pc' = "exit"
          /\ UNCHANGED vdevs
       \/ /\ \E t \in Topologies : vdevs' = t
          /\ pc' = "open_objset"
          /\ UNCHANGED << exitCode, fail >>
    /\ UNCHANGED << argc, implRet, dumpPathRet >>
    /\ UNCHANGED handleVars
    /\ UNCHANGED walkVars

\* open_objset, called from dump_path
OpenObjset ==
    /\ pc = "open_objset"
    /\ \/ \* dmu_objset_own fails
          /\ openRet' = ENOENT
          /\ fail' = Failed("open")
          /\ UNCHANGED << os, sa_attr_table, disowns, wasOwned >>
       \/ \* owned, os_encrypted: sa_setup is not called
          /\ os' = "owned"
          /\ wasOwned' = TRUE
          /\ openRet' = 0
          /\ UNCHANGED << sa_attr_table, disowns, fail >>
       \/ \* owned, sa_setup succeeds
          /\ os' = "owned"
          /\ wasOwned' = TRUE
          /\ sa_attr_table' = "set"
          /\ openRet' = 0
          /\ UNCHANGED << disowns, fail >>
       \/ \* owned, sa_setup fails: disown, *osp = NULL, return (0)
          /\ os' = "null"
          /\ wasOwned' = TRUE
          /\ disowns' = disowns + 1
          /\ openRet' = 0
          /\ fail' = Failed("open")
          /\ UNCHANGED sa_attr_table
    /\ pc' = "dump_path"
    /\ UNCHANGED << argc, exitCode, vdevs, implRet, dumpPathRet, badUse >>
    /\ UNCHANGED walkVars

\* dump_path after open_objset: the err check and the lookup of the root
DumpPath ==
    /\ pc = "dump_path"
    /\ IF openRet # 0
       THEN /\ dumpPathRet' = openRet
            /\ pc' = "main_ret"
            /\ UNCHANGED << os, disowns, badUse, fail >>
       ELSE /\ badUse' = (badUse \/ os # "owned")
            /\ \/ \* zap_lookup of ZFS_ROOT_OBJ fails: disown, return (EINVAL)
                  /\ disowns' = disowns + 1
                  /\ os' = "disowned"
                  /\ dumpPathRet' = EINVAL
                  /\ fail' = Failed("root_lookup")
                  /\ pc' = "main_ret"
               \/ /\ pc' = "dump_path_impl"
                  /\ UNCHANGED << os, disowns, dumpPathRet, fail >>
    /\ UNCHANGED << argc, exitCode, vdevs, sa_attr_table, openRet, implRet,
                    wasOwned >>
    /\ UNCHANGED walkVars

\* dump_path_impl up to the switch on doi.doi_type
DumpPathImpl ==
    /\ pc = "dump_path_impl"
    /\ badUse' = (badUse \/ os # "owned")
    /\ \/ \* zap_lookup of the path component fails: return (err)
          /\ implRet' = ENOENT
          /\ fail' = Failed("lookup")
          /\ pc' = "close_objset"
       \/ \* sa_buf_hold fails, the bonus type is invalid, or the object
          \* has a non-file type: return (EINVAL)
          /\ \E why \in { "sa_buf_hold", "bonus_type", "doi_type" } :
                implRet' = EINVAL
          /\ fail' = Failed("lookup")
          /\ pc' = "close_objset"
       \/ \* DMU_OT_PLAIN_FILE_CONTENTS: dump_object is called
          /\ pc' = "dump_object"
          /\ UNCHANGED << implRet, fail >>
    /\ UNCHANGED << argc, exitCode, vdevs, os, sa_attr_table, openRet,
                    dumpPathRet, disowns, wasOwned >>
    /\ UNCHANGED walkVars

\* dump_object up to the call of dump_znode; it returns nothing, and
\* dump_path_impl returns 0 after it
DumpObject ==
    /\ pc = "dump_object"
    /\ badUse' = (badUse \/ os # "owned")
    /\ \/ \* dmu_object_info or dmu_bonus_hold fails: return
          /\ \E why \in { "dmu_object_info", "dmu_bonus_hold" } :
                fail' = Failed("attr")
          /\ implRet' = 0
          /\ pc' = "close_objset"
          /\ UNCHANGED dnp
       \/ /\ \E d \in Dnodes : dnp' = d
          /\ pc' = "dump_znode"
          /\ UNCHANGED << implRet, fail >>
    /\ UNCHANGED << argc, exitCode, vdevs, os, sa_attr_table, openRet,
                    dumpPathRet, disowns, wasOwned >>
    /\ UNCHANGED << fsize, stack, j, list, node, remaining_fsize, out, reqs,
                    warnings, nfetch, fetchFailed >>

\* dump_znode and the start of dump_indirect: c2list_init, SET_BOOKMARK
DumpZnode ==
    /\ pc = "dump_znode"
    /\ \/ \* sa_handle_get fails: return (0)
          /\ fsize' = 0
          /\ fail' = Failed("attr")
          /\ badUse' = (badUse \/ os # "owned")
       \/ \* sa_bulk_lookup fails: return (0)
          /\ fsize' = 0
          /\ fail' = Failed("attr")
          /\ badUse' = (badUse \/ os # "owned" \/ sa_attr_table = "null")
       \/ \* the recorded size is returned
          /\ \E fs \in FSizes : fsize' = fs
          /\ badUse' = (badUse \/ os # "owned" \/ sa_attr_table = "null")
          /\ UNCHANGED fail
    /\ list' = << >>
    /\ stack' = << >>
    /\ j' = 0
    /\ pc' = "dump_indirect"
    /\ UNCHANGED << argc, exitCode, vdevs, os, sa_attr_table, openRet, implRet,
                    dumpPathRet, disowns, wasOwned >>
    /\ UNCHANGED << dnp, node, remaining_fsize, out, reqs, warnings, nfetch,
                    fetchFailed >>

\* a null handle or a null attribute table is about to be dereferenced
DerefsNull ==
    \/ pc = "dump_path" /\ openRet = 0 /\ os # "owned"
    \/ pc \in { "dump_path_impl", "dump_object", "dump_znode", "close_objset" }
       /\ os # "owned"
    \/ pc = "dump_znode" /\ sa_attr_table = "null"

\* the dereference faults and the process is killed
Crash ==
    /\ DerefsNull
    /\ badUse' = TRUE
    /\ exitCode' = SIGSEGV_STATUS
    /\ pc' = "exit"
    /\ UNCHANGED << argc, vdevs, os, sa_attr_table, openRet, implRet,
                    dumpPathRet, disowns, wasOwned, fail >>
    /\ UNCHANGED walkVars

\* one call of visit_indirect, up to the point where it either returns or
\* enters its loop over the children
VisitIndirect ==
    /\ pc = "dump_indirect"
    /\ j < dnp.nblkptr
    /\ LET zb == CurrentZb
           ok == ReturnOk(stack, j)
           bad == ReturnErr(stack, j)
       IN  \E bp \in BlkptrsAt(dnp, zb.level, zb.blkid, Len(vdevs)) :
             IF bp.birth = 0
             THEN \* return (0)
                  /\ stack' = ok.stack
                  /\ j' = ok.j
                  /\ UNCHANGED << list, nfetch, fetchFailed >>
             ELSE /\ list' = print_indirect(dnp, bp, zb, list)
                  /\ IF bp.level > 0 /\ ~bp.hole
                     THEN \* arc_read
                          /\ nfetch' = nfetch + 1
                          /\ IF bp.readable
                             THEN /\ stack' = Append(stack,
                                        [ level |-> zb.level, blkid |-> zb.blkid,
                                          epb |-> Epb(bp), i |-> 0 ])
                                  /\ UNCHANGED << j, fetchFailed >>
                             ELSE /\ stack' = bad.stack
                                  /\ j' = bad.j
                                  /\ fetchFailed' = TRUE
                     ELSE \* return (err) with err = 0
                          /\ stack' = ok.stack
                          /\ j' = ok.j
                          /\ UNCHANGED << nfetch, fetchFailed >>
    /\ UNCHANGED << pc, argc, exitCode, vdevs, implRet, dumpPathRet, fail >>
    /\ UNCHANGED handleVars
    /\ UNCHANGED << dnp, fsize, node, remaining_fsize, out, reqs, warnings >>

\* the walk is over: dump_indirect returns, the guard is pushed and the
\* reconciliation loop starts at the head of the list
AddGuard ==
    /\ pc = "dump_indirect"
    /\ j = dnp.nblkptr
    /\ list' = Append(list, GuardInfo(fsize))
    /\ remaining_fsize' = fsize
    /\ node' = 1
    /\ pc' = "reconcile"
    /\ UNCHANGED << argc, exitCode, vdevs, implRet, dumpPathRet, fail >>
    /\ UNCHANGED handleVars
    /\ UNCHANGED << dnp, fsize, stack, j, out, reqs, warnings, nfetch,
                    fetchFailed >>

\* one iteration of the loop over (node, next_node)
Reconcile ==
    /\ pc = "reconcile"
    /\ node < Len(list)
    /\ LET info == list[node]
           next == list[node + 1]
           vdev == vdevs[info.vdev + 1]
           actual_size == ActualSize(info, next, remaining_fsize)
       IN  /\ remaining_fsize' = RemainingAfter(remaining_fsize, info)
           /\ out' = Append(out, BpLine(info, actual_size))
           /\ reqs' = reqs \o ResolveLines(node, info, vdev, actual_size)
           /\ warnings' = warnings + ResolveWarns(vdev, actual_size)
    /\ node' = node + 1
    /\ UNCHANGED << pc, argc, exitCode, vdevs, implRet, dumpPathRet, fail >>
    /\ UNCHANGED handleVars
    /\ UNCHANGED << dnp, fsize, stack, j, list, nfetch, fetchFailed >>

\* the loop is over: c2list_fin, dmu_buf_rele, and dump_path_impl
\* returns 0
EndObject ==
    /\ pc = "reconcile"
    /\ node = Len(list)
    /\ list' = << >>
    /\ implRet' = 0
    /\ pc' = "close_objset"
    /\ UNCHANGED << argc, exitCode, vdevs, dumpPathRet, fail >>
    /\ UNCHANGED handleVars
    /\ UNCHANGED << dnp, fsize, stack, j, node, remaining_fsize, out, reqs,
                    warnings, nfetch, fetchFailed >>

\* close_objset, and dump_path returns err
CloseObjset ==
    /\ pc = "close_objset"
    /\ badUse' = (badUse \/ os # "owned")
    /\ os' = "disowned"
    /\ disowns' = disowns + 1
    /\ sa_attr_table' = "null"
    /\ dumpPathRet' = implRet
    /\ pc' = "main_ret"
    /\ UNCHANGED << argc, exitCode, vdevs, openRet, implRet, wasOwned, fail >>
    /\ UNCHANGED walkVars

\* main after dump_path: its return value is dropped, cleanup_vdevs,
\* kernel_fini, return (0)
MainRet ==
    /\ pc = "main_ret"
    /\ vdevs' = << >>
    /\ exitCode' = 0
    /\ pc' = "exit"
    /\ UNCHANGED << argc, implRet, dumpPathRet, fail >>
    /\ UNCHANGED handleVars
    /\ UNCHANGED walkVars

Next ==
    \/ Main
    \/ DumpCachefile
    \/ OpenObjset
    \/ DumpPath
    \/ DumpPathImpl
    \/ DumpObject
    \/ DumpZnode
    \/ Crash
    \/ VisitIndirect
    \/ AddGuard
    \/ Reconcile
    \/ EndObject
    \/ CloseObjset
    \/ MainRet

Spec == Init /\ [][Next]_vars

---------------------------------------------------------------------------
(* Properties *)

\* the leaf descriptors on the list (the guard, once pushed, is not one)
LeafCount == IF pc = "reconcile" THEN Len(list) - 1 ELSE Len(list)

\* sum of effective_record_size over a sequence of "BP:" lines
RECURSIVE SumEffective(_)
SumEffective(lines) ==
    IF lines = << >> THEN 0
    ELSE Head(lines).effective_record_size + SumEffective(Tail(lines))

\* sum of file_data over a sequence of "BP:" lines
RECURSIVE SumFileData(_)
SumFileData(lines) ==
    IF lines = << >> THEN 0
    ELSE Head(lines).file_data + SumFileData(Tail(lines))

\* dump_object has finished its loop over the list
ObjectDone == pc \in { "close_objset", "main_ret", "exit" }

\* the request lines printed for list node n
ReqsOf(n) == SelectSeq(reqs, LAMBDA r : r.node = n)

\* C1 (as claimed): once an arc_read has failed, the walk of the object
\* makes no further arc_read and pushes no further leaf descriptor.
C1_WalkStopsAtFetchError ==
    [][ (fetchFailed /\ pc = "dump_indirect")
        => (nfetch' = nfetch /\ (pc' = "dump_indirect" => list' = list)) ]_vars

\* C2 (as claimed): a run that ends in a usage error, a configuration load
\* failure, an open failure or a failed root or path lookup exits with 1,
\* and a run exits with 0 only without such a failure.  (A run killed by
\* a signal has no exit code of its own and is left out.)
C2_ExitCodeReportsFailure ==
    (pc = "exit" /\ exitCode # SIGSEGV_STATUS) =>
        /\ (fail \in { "usage", "config", "open", "root_lookup", "lookup" }
               => exitCode = 1)
        /\ (exitCode = 0
               => fail \notin { "usage", "config", "open", "root_lookup", "lookup" })

\* C3: the leaf descriptors pushed by the walk are strictly ascending by
\* file_offset, at every point of the walk and for every tree.
C3_LeavesStrictlyAscending ==
    \A a, b \in 1 .. LeafCount :
        a < b => list[a].file_offset < list[b].file_offset

\* C3 witness: a two-level walk under its second root pointer with three
\* leaves pushed, a hole among them
C3_Witness ==
    /\ pc = "dump_indirect"
    /\ dnp.nlevels >= 2
    /\ j >= 1
    /\ Len(list) >= 3
    /\ \E a \in 1 .. Len(list) : list[a].physical_file_data = 0

\* C4: after every processed descriptor the sum of the effective lengths
\* printed so far is at most the true file length.
C4_ConsumedWithinFileSize == SumEffective(out) <= fsize

\* C4 witness: the second descriptor was cut down to what was left of the
\* file, and the sum has reached the file length
C4_Witness ==
    /\ pc = "reconcile"
    /\ Len(out) >= 2
    /\ out[2].effective_record_size > 0
    /\ out[2].effective_record_size < out[2].physical_file_data
    /\ SumEffective(out) = fsize

\* C5 (as claimed): no extent that is read (effective length above 0)
\* reaches past the true end of the file.
C5_ExtentEndsWithinFile ==
    \A n \in 1 .. Len(out) :
        out[n].effective_record_size > 0
            => out[n].file_offset + out[n].effective_record_size <= fsize

\* the printed lines describe contiguous, non-hole, non-padded blocks
\* starting at offset 0
ContiguousFull(lines) ==
    \A n \in 1 .. Len(lines) :
        /\ lines[n].file_offset = SumFileData(SubSeq(lines, 1, n - 1))
        /\ lines[n].physical_file_data = lines[n].file_data
        /\ lines[n].file_data > 0

\* C6: for a file of contiguous non-hole, non-padded blocks whose true
\* length is the sum of the block lengths, the effective lengths sum to
\* the true length.
C6_FullFileSumsToFileSize ==
    (ObjectDone /\ ContiguousFull(out) /\ fsize = SumFileData(out))
        => SumEffective(out) = fsize

\* C6 witness: three contiguous full blocks were reconciled
C6_Witness ==
    /\ ObjectDone
    /\ Len(out) = 3
    /\ ContiguousFull(out)
    /\ fsize = SumFileData(out)

\* C7: a hole gets effective length 0 and no request line, on any vdev,
\* and the loop goes on: every descriptor before the loop position has
\* its line, and every extent with bytes to read on a STRIPE, MIRROR or
\* RAIDZ vdev has its request.
C7_HoleYieldsNothing ==
    /\ \A n \in 1 .. Len(out) :
          out[n].physical_file_data = 0
              => (out[n].effective_record_size = 0 /\ ReqsOf(n) = << >>)
    /\ pc = "reconcile" => (Len(out) = node - 1 /\ node <= Len(list))
    /\ vdevs # << >> =>
          \A n \in 1 .. Len(out) :
              (/\ out[n].effective_record_size > 0
               /\ vdevs[out[n].vdev + 1].type # "UNKNOWN")
                  => Len(ReqsOf(n)) = 1

\* C7 witness: data, hole, data were reconciled; requests exist for the
\* first and the third only
C7_Witness ==
    /\ ObjectDone
    /\ Len(out) = 3
    /\ out[2].physical_file_data = 0
    /\ out[1].effective_record_size > 0
    /\ out[3].effective_record_size > 0
    /\ Len(reqs) = 2
    /\ reqs[1].node = 1
    /\ reqs[2].node = 3

\* C8: an extent with bytes to read on a STRIPE or MIRROR vdev has exactly
\* one request line: first member device of that vdev, offset = vdev
\* offset + label area, size = effective length; a STRIPE with several
\* devices adds a warning only, and no line names another member device.
C8_StripeMirrorOneRequest ==
    /\ vdevs # << >> =>
          \A n \in 1 .. Len(out) :
              (/\ out[n].effective_record_size > 0
               /\ vdevs[out[n].vdev + 1].type \in { "STRIPE", "MIRROR" })
                  => /\ Len(ReqsOf(n)) = 1
                     /\ ReqsOf(n)[1].kind = "dev"
                     /\ ReqsOf(n)[1].dev = << out[n].vdev, 0 >>
                     /\ ReqsOf(n)[1].offset = out[n].io_offset + VDEV_LABEL_START_SIZE
                     /\ ReqsOf(n)[1].size = out[n].effective_record_size
    /\ \A k \in 1 .. Len(reqs) :
          reqs[k].kind = "dev" => reqs[k].dev = << reqs[k].vdevidx, 0 >>
    /\ vdevs # << >> =>
          warnings = Cardinality({ n \in 1 .. Len(out) :
                        /\ out[n].effective_record_size > 0
                        /\ vdevs[out[n].vdev + 1].type = "STRIPE"
                        /\ vdevs[out[n].vdev + 1].count > 1 })

\* C8 witness: an extent on a two-device STRIPE standing as vdev 1 was
\* resolved, with its warning
C8_Witness ==
    /\ vdevs # << >>
    /\ warnings >= 1
    /\ \E n \in 1 .. Len(out) :
          /\ out[n].vdev = 1
          /\ out[n].effective_record_size > 0
          /\ vdevs[2].type = "STRIPE"
          /\ vdevs[2].count = 2
          /\ Len(ReqsOf(n)) = 1

\* C9 (as claimed): after a failed lookup of the path component, of the
\* object's info or bonus buffer, or of its recorded size, no tree is
\* walked, nothing is reconciled or resolved, and dump_path returns
\* non-zero.
C9_LookupErrorAborts ==
    fail \in { "lookup", "attr" } =>
        /\ pc \notin { "dump_indirect", "reconcile" }
        /\ nfetch = 0
        /\ out = << >>
        /\ pc = "main_ret" => dumpPathRet # 0

\* C10 (as claimed): open_objset returning 0 leaves an owned handle, no
\* null or disowned handle is used, and a handle that was owned has been
\* disowned exactly once when dump_path returns.
C10_HandleUsedOnlyWhileOwned ==
    /\ (pc = "dump_path" /\ openRet = 0) => os = "owned"
    /\ ~badUse
    /\ (pc = "main_ret" /\ wasOwned) => disowns = 1
===========================================================================
